---------------------------- MODULE Spec2Model ----------------------------
(***************************************************************************)
(* Character-level sentence segmentation (sentence-segmentation.py):       *)
(* the feature extractor (char2features, sent2features), the label codec   *)
(* (text2labels, text2sentences) and the dataset builder (get_train_data). *)
(* A Python str is a sequence of one-character strings; Python indices are *)
(* kept 0-based in the operators' arguments and results.                   *)
(***************************************************************************)
EXTENDS Integers, Sequences, FiniteSets, TLC

VARIABLES text, sents, labels, pc, enc, feats, dec, sents2, enc2,
          corpus, X, y, done

vars == <<text, sents, labels, pc, enc, feats, dec, sents2, enc2,
          corpus, X, y, done>>

(***************************************************************************)
(* Bounds of the input domains.                                            *)
(***************************************************************************)
MaxTextLen == 3
MaxSents == 2
MaxFeatLen == 5
MaxDocs == 2
MaxDocLen == 2

(***************************************************************************)
(* Characters: a lower-case letter, its upper-case form, and the two       *)
(* digits that double as label symbols.                                    *)
(***************************************************************************)
Alphabet == {"a", "A", "0", "1"}

Labels == {"0", "1"}

SeqsUpTo(S, n) == UNION {[1..k -> S] : k \in 0..n}

Min(S) == CHOOSE m \in S : \A o \in S : m <= o

Range(s) == {s[k] : k \in 1..Len(s)}

\* str.lower(), str.isupper(), str.isnumeric() on one character
lower(c) == IF c = "A" THEN "a" ELSE c

isupper(c) == c = "A"

isnumeric(c) == c \in {"0", "1"}

\* '{0}'.format(b) for a bool (a str formats as itself)
format(b) == IF b THEN "True" ELSE "False"

\* the three tokens of one character, under an offset marker ("" for the
\* character itself)
group(prefix, char) ==
    << prefix \o "lower=" \o lower(char),
       prefix \o "isupper=" \o format(isupper(char)),
       prefix \o "isnumeric=" \o format(isnumeric(char)) >>

\* sentence[j] for a 0-based j that may be negative (Python wraps around)
at(sentence, j) == IF j >= 0 THEN sentence[j + 1] ELSE sentence[Len(sentence) + j + 1]

char2featuresWrap(sentence, i) ==
    group("", at(sentence, i))
    \o (IF i > 0 THEN group("-1:", at(sentence, i - 1)) ELSE <<>>)
    \o (IF i > 0 THEN group("-2:", at(sentence, i - 2)) ELSE <<>>)
    \o (IF i < Len(sentence) - 1 THEN group("+1:", at(sentence, i + 1)) ELSE <<>>)
    \o (IF i < Len(sentence) - 2 THEN group("+2:", at(sentence, i + 2)) ELSE <<>>)

char2features(sentence, i) ==
    group("", at(sentence, i))
    \o (IF i > 0 THEN group("-1:", at(sentence, i - 1)) ELSE <<>>)
    \o (IF i > 1 THEN group("-2:", at(sentence, i - 2)) ELSE <<>>)
    \o (IF i < Len(sentence) - 1 THEN group("+1:", at(sentence, i + 1)) ELSE <<>>)
    \o (IF i < Len(sentence) - 2 THEN group("+2:", at(sentence, i + 2)) ELSE <<>>)

sent2features(sent) == [k \in 1..Len(sent) |-> char2features(sent, k - 1)]

(***************************************************************************)
(* Label codec, encode side.                                               *)
(***************************************************************************)
NotFound == -1

\* the starts (0-based) at which sent occurs in txt
occurrences(txt, sent) ==
    {s \in 0..(Len(txt) - Len(sent)) : SubSeq(txt, s + 1, s + Len(sent)) = sent}

\* a lookup that answers 0 for an absent sentence instead of failing
indexOrZero(txt, sent) ==
    IF occurrences(txt, sent) = {} THEN 0 ELSE Min(occurrences(txt, sent))

\* str.index: the lowest start, NotFound standing for its ValueError
index(txt, sent) ==
    IF occurrences(txt, sent) = {} THEN NotFound ELSE Min(occurrences(txt, sent))

\* '0' * n
zeros(n) == [k \in 1..n |-> "0"]

\* an insertion at start that removes nothing: lst[start:start] = repl
sliceInsert(lst, start, finish, repl) ==
    SubSeq(lst, 1, start) \o repl \o SubSeq(lst, start + 1, Len(lst))

\* lst[start:finish] = repl for 0 <= start <= finish (finish clamped to len)
sliceAssign(lst, start, finish, repl) ==
    LET fin == IF finish > Len(lst) THEN Len(lst) ELSE finish
    IN  SubSeq(lst, 1, start) \o repl \o SubSeq(lst, fin + 1, Len(lst))

\* the closing loop: everything that is not '0' becomes '1'
finalize(lbls) == [k \in 1..Len(lbls) |-> IF lbls[k] # "0" THEN "1" ELSE lbls[k]]

\* the loop over sents: each sentence located in the text from its start
RECURSIVE markSents(_, _, _)
markSents(txt, ss, lbls) ==
    IF ss = <<>> THEN [err |-> "none", labels |-> finalize(lbls)]
    ELSE LET sent == Head(ss)
             start == index(txt, sent)
             finish == start + Len(sent)
         IN  IF start = NotFound
             THEN [err |-> "ValueError", labels |-> <<>>]
             ELSE markSents(txt, Tail(ss), sliceAssign(lbls, start, finish, zeros(Len(sent))))

\* a variant that resumes each search after the previous match
RECURSIVE markFrom(_, _, _, _)
markFrom(txt, ss, lbls, cursor) ==
    IF ss = <<>> THEN [err |-> "none", labels |-> finalize(lbls)]
    ELSE LET sent == Head(ss)
             later == {s \in occurrences(txt, sent) : s >= cursor}
         IN  IF later = {}
             THEN [err |-> "ValueError", labels |-> <<>>]
             ELSE markFrom(txt, Tail(ss),
                           sliceAssign(lbls, Min(later), Min(later) + Len(sent), zeros(Len(sent))),
                           Min(later) + Len(sent))

text2labelsCursor(txt, ss) == markFrom(txt, ss, txt, 0)

text2labels(txt, ss) == markSents(txt, ss, txt)

(***************************************************************************)
(* Label codec, decode side: the generator, run to its end.  sentences is  *)
(* what it has yielded, err how it ended.                                  *)
(***************************************************************************)
RECURSIVE scan(_, _, _, _, _)
scan(txt, lbls, i, sentence, out) ==
    IF i = Len(lbls)
    THEN [err |-> "none",
          sentences |-> IF sentence # <<>> THEN Append(out, sentence) ELSE out]
    ELSE IF lbls[i + 1] = "1"
         THEN scan(txt, lbls, i + 1, <<>>,
                   IF sentence # <<>> THEN Append(out, sentence) ELSE out)
         ELSE IF i >= Len(txt)
              THEN [err |-> "IndexError", sentences |-> out]
              ELSE scan(txt, lbls, i + 1, Append(sentence, txt[i + 1]), out)

\* without the flush after the loop
RECURSIVE scanNoFlush(_, _, _, _, _)
scanNoFlush(txt, lbls, i, sentence, out) ==
    IF i = Len(lbls)
    THEN [err |-> "none", sentences |-> out]
    ELSE IF lbls[i + 1] = "1"
         THEN scanNoFlush(txt, lbls, i + 1, <<>>,
                          IF sentence # <<>> THEN Append(out, sentence) ELSE out)
         ELSE IF i >= Len(txt)
              THEN [err |-> "IndexError", sentences |-> out]
              ELSE scanNoFlush(txt, lbls, i + 1, Append(sentence, txt[i + 1]), out)

text2sentencesNoFlush(txt, lbls) == scanNoFlush(txt, lbls, 0, <<>>, <<>>)

\* without the test that the pending sentence is non-empty
RECURSIVE scanEager(_, _, _, _, _)
scanEager(txt, lbls, i, sentence, out) ==
    IF i = Len(lbls)
    THEN [err |-> "none",
          sentences |-> IF sentence # <<>> THEN Append(out, sentence) ELSE out]
    ELSE IF lbls[i + 1] = "1"
         THEN scanEager(txt, lbls, i + 1, <<>>, Append(out, sentence))
         ELSE IF i >= Len(txt)
              THEN [err |-> "IndexError", sentences |-> out]
              ELSE scanEager(txt, lbls, i + 1, Append(sentence, txt[i + 1]), out)

text2sentencesEager(txt, lbls) == scanEager(txt, lbls, 0, <<>>, <<>>)

text2sentences(txt, lbls) == scan(txt, lbls, 0, <<>>, <<>>)

(***************************************************************************)
(* Input domains.                                                          *)
(***************************************************************************)
Texts == SeqsUpTo(Alphabet, MaxTextLen)

Substrings(t) == {SubSeq(t, s, e) : s \in 1..(Len(t) + 1), e \in 0..Len(t)}

\* candidate sentences for a text: its substrings (the empty one included)
\* and every one-character string, some of which the text lacks
SentencePool(t) == Substrings(t) \cup {<<c>> : c \in Alphabet}

NoLabels == [err |-> "unset", labels |-> <<>>]

NoSentences == [err |-> "unset", sentences |-> <<>>]

\* a corpus document: raw(), raw_sents(), and whether reading it succeeds
Unreadable == [text |-> <<>>, sents |-> <<>>, readable |-> FALSE]

Documents ==
    {[text |-> t, sents |-> ss, readable |-> TRUE] :
        t \in SeqsUpTo(Alphabet, MaxDocLen), ss \in SeqsUpTo({<<c>> : c \in Alphabet}, 1)}
    \cup {Unreadable}

Idle ==
    /\ sents2 = <<>> /\ enc = NoLabels /\ enc2 = NoLabels
    /\ feats = <<>> /\ dec = NoSentences
    /\ corpus = <<>> /\ X = <<>> /\ y = <<>> /\ done = 0

(***************************************************************************)
(* Encoding one document: text2labels, then sent2features on the same      *)
(* text; the labels decoded back; the same sentences listed another way.   *)
(***************************************************************************)
InitEncode ==
    /\ text \in Texts
    /\ sents \in SeqsUpTo(SentencePool(text), MaxSents)
    /\ labels = <<>>
    /\ pc = "ready"
    /\ Idle

Text2Labels ==
    /\ pc = "ready"
    /\ enc' = text2labels(text, sents)
    /\ pc' = "encoded"
    /\ UNCHANGED <<text, sents, labels, feats, dec, sents2, enc2, corpus, X, y, done>>

\* features = sent2features(text), after the labels of the same document
DocumentFeatures ==
    /\ pc = "encoded"
    /\ enc.err = "none"
    /\ feats' = sent2features(text)
    /\ pc' = "featured"
    /\ UNCHANGED <<text, sents, labels, enc, dec, sents2, enc2, corpus, X, y, done>>

RoundTrip ==
    /\ pc = "encoded"
    /\ enc.err = "none"
    /\ labels' = enc.labels
    /\ dec' = text2sentences(text, enc.labels)
    /\ pc' = "decoded"
    /\ UNCHANGED <<text, sents, enc, feats, sents2, enc2, corpus, X, y, done>>

Reencode ==
    /\ pc = "encoded"
    /\ \E other \in SeqsUpTo(Range(sents), MaxSents) :
          /\ Range(other) = Range(sents)
          /\ sents2' = other
          /\ enc2' = text2labels(text, other)
    /\ pc' = "reencoded"
    /\ UNCHANGED <<text, sents, labels, enc, feats, dec, corpus, X, y, done>>

NextEncode == Text2Labels \/ DocumentFeatures \/ RoundTrip

SpecEncode == InitEncode /\ [][NextEncode]_vars

NextReencode == Text2Labels \/ Reencode

SpecReencode == InitEncode /\ [][NextReencode]_vars

(***************************************************************************)
(* Decoding a text under any label sequence, of the text's length or not.  *)
(***************************************************************************)
InitDecode ==
    /\ text \in Texts
    /\ labels \in SeqsUpTo(Labels, MaxTextLen + 1)
    /\ sents = <<>>
    /\ pc = "ready"
    /\ Idle

Text2Sentences ==
    /\ pc = "ready"
    /\ dec' = text2sentences(text, labels)
    /\ pc' = "decoded"
    /\ UNCHANGED <<text, sents, labels, enc, feats, sents2, enc2, corpus, X, y, done>>

NextDecode == Text2Sentences

SpecDecode == InitDecode /\ [][NextDecode]_vars

(***************************************************************************)
(* Feature extraction over texts long enough for a full context window.    *)
(***************************************************************************)
InitFeatures ==
    /\ text \in SeqsUpTo(Alphabet, MaxFeatLen)
    /\ sents = <<>>
    /\ labels = <<>>
    /\ pc = "ready"
    /\ Idle

Sent2Features ==
    /\ pc = "ready"
    /\ feats' = sent2features(text)
    /\ pc' = "featured"
    /\ UNCHANGED <<text, sents, labels, enc, dec, sents2, enc2, corpus, X, y, done>>

NextFeatures == Sent2Features

SpecFeatures == InitFeatures /\ [][NextFeatures]_vars

(***************************************************************************)
(* get_train_data: one pass over the corpus.  done counts the documents    *)
(* whose features and labels were appended; an exception leaves the loop.  *)
(***************************************************************************)
InitTrain ==
    /\ corpus \in SeqsUpTo(Documents, MaxDocs)
    /\ X = <<>> /\ y = <<>> /\ done = 0
    /\ pc = "loop"
    /\ text = <<>> /\ sents = <<>> /\ labels = <<>>
    /\ sents2 = <<>> /\ enc = NoLabels /\ enc2 = NoLabels
    /\ feats = <<>> /\ dec = NoSentences

\* one iteration of the for loop
NextDocument ==
    /\ pc = "loop"
    /\ done < Len(corpus)
    /\ LET document == corpus[done + 1]
           r == text2labels(document.text, document.sents)
       IN  IF ~document.readable
           THEN /\ pc' = "ReadError"
                /\ UNCHANGED <<X, y, done>>
           ELSE IF r.err # "none"
           THEN /\ pc' = r.err
                /\ UNCHANGED <<X, y, done>>
           ELSE /\ X' = Append(X, sent2features(document.text))
                /\ y' = Append(y, r.labels)
                /\ done' = done + 1
                /\ pc' = "loop"
    /\ UNCHANGED <<text, sents, labels, enc, feats, dec, sents2, enc2, corpus>>

\* the return statement: train_test_split is a name the module never binds
Split ==
    /\ pc = "loop"
    /\ done = Len(corpus)
    /\ pc' = "NameError"
    /\ UNCHANGED <<text, sents, labels, enc, feats, dec, sents2, enc2, corpus, X, y, done>>

NextTrain == NextDocument \/ Split

SpecTrain == InitTrain /\ [][NextTrain]_vars

(***************************************************************************)
(* Vocabulary of the properties, stated apart from the operators above.    *)
(***************************************************************************)
Occurs(t, sent) == \E s \in 1..(Len(t) + 1) : \E e \in 0..Len(t) : SubSeq(t, s, e) = sent

AllOccur(t, ss) == \A k \in 1..Len(ss) : Occurs(t, ss[k])

\* 1-based first and last position of the first occurrence of sent in t
FirstStart(t, sent) ==
    CHOOSE s \in 1..(Len(t) + 1) :
        /\ SubSeq(t, s, s + Len(sent) - 1) = sent
        /\ \A r \in 1..(s - 1) : SubSeq(t, r, r + Len(sent) - 1) # sent

InFirstSpan(t, sent, i) ==
    /\ FirstStart(t, sent) <= i
    /\ i < FirstStart(t, sent) + Len(sent)

\* t = ss[1] sep ss[2] sep ... ss[n], every separator non-empty
RECURSIVE Reconstructs(_, _)
Reconstructs(t, ss) ==
    IF ss = <<>> THEN t = <<>>
    ELSE LET s == Head(ss)
         IN  /\ Len(s) <= Len(t)
             /\ SubSeq(t, 1, Len(s)) = s
             /\ IF Len(ss) = 1 THEN Len(t) = Len(s)
                ELSE \E k \in 1..(Len(t) - Len(s)) :
                        Reconstructs(SubSeq(t, Len(s) + k + 1, Len(t)), Tail(ss))

GroundTruth(t, ss) ==
    /\ \A k \in 1..Len(ss) : ss[k] # <<>>
    /\ \A j, k \in 1..Len(ss) : j # k => ss[j] # ss[k]
    /\ Reconstructs(t, ss)

RECURSIVE Flatten(_)
Flatten(ss) == IF ss = <<>> THEN <<>> ELSE Head(ss) \o Flatten(Tail(ss))

\* the characters of t whose label is IN_SENTENCE, in text order
RECURSIVE Picked(_, _)
Picked(t, l) ==
    IF t = <<>> THEN <<>>
    ELSE (IF Head(l) = "0" THEN <<Head(t)>> ELSE <<>>) \o Picked(Tail(t), Tail(l))

\* maximal runs of IN_SENTENCE labels: where they start, where each ends
RunStarts(l) == {s \in 1..Len(l) : l[s] = "0" /\ (s = 1 \/ l[s - 1] = "1")}

RunEnd(l, s) ==
    CHOOSE e \in s..Len(l) :
        /\ \A j \in s..e : l[j] = "0"
        /\ e = Len(l) \/ l[e + 1] = "1"

RunRank(l, s) == Cardinality({r \in RunStarts(l) : r <= s})

Offsets == {-2, -1, 1, 2}

Marker(d) == CASE d = -2 -> "-2:" [] d = -1 -> "-1:" [] d = 1 -> "+1:" [] d = 2 -> "+2:"

TokensOf(d) == UNION {Range(group(Marker(d), c)) : c \in Alphabet}

InRange(t, j) == 0 <= j /\ j < Len(t)

\* the documents of a corpus that can be read and encoded
Processable(document) ==
    document.readable /\ AllOccur(document.text, document.sents)

(***************************************************************************)
(* C1.  Round trip: for a text and an ordered list of distinct non-empty   *)
(* sentences that, with non-empty separators between them, reconstruct the *)
(* text, decoding the encoded labels yields exactly that list.  The code   *)
(* breaks it: a '0' among the separators stays IN_SENTENCE, and a sentence *)
(* that also occurs earlier in the text is marked at the earlier place.    *)
(***************************************************************************)
C1_RoundTrip ==
    (pc = "decoded" /\ GroundTruth(text, sents))
        => (dec.err = "none" /\ dec.sentences = sents)

(***************************************************************************)
(* C2.  Encode labelling: when every listed sentence occurs in the text,   *)
(* position i is labelled '0' exactly when it lies in the first-occurrence *)
(* span of some listed sentence, and '1' otherwise.  The code breaks it on *)
(* a text character '0' outside every span.                                *)
(***************************************************************************)
C2_LabelsAreSpans ==
    (pc = "encoded" /\ AllOccur(text, sents))
        => /\ enc.err = "none"
           /\ Len(enc.labels) = Len(text)
           /\ \A i \in 1..Len(text) :
                 enc.labels[i] =
                    IF \E k \in 1..Len(sents) : InFirstSpan(text, sents[k], i)
                    THEN "0" ELSE "1"

(***************************************************************************)
(* C3.  Decode never invents characters: for labels of the text's length,  *)
(* the emitted sentences, concatenated in order, are the characters of the *)
(* text labelled IN_SENTENCE, in text order.                               *)
(***************************************************************************)
C3_DecodeKeepsCharacters ==
    (pc = "decoded" /\ Len(labels) = Len(text))
        => (dec.err = "none" /\ Flatten(dec.sentences) = Picked(text, labels))

C3_Witness ==
    /\ pc = "decoded"
    /\ Len(text) = MaxTextLen /\ Len(labels) = Len(text)
    /\ labels[1] = "1" /\ labels[2] = "0" /\ labels[Len(labels)] = "0"
    /\ Len(dec.sentences) = 1

C5_LengthMismatchFails ==
    (pc = "decoded" /\ Len(labels) # Len(text))
        => (dec.err = "LengthMismatchError" /\ dec.sentences = <<>>)

(***************************************************************************)
(* C6.  Length invariant: the feature sequence of a text has the text's    *)
(* length, and so has the label sequence of a text whose listed sentences  *)
(* all occur in it (empty, overlapping and repeated sentences included).   *)
(***************************************************************************)
C6_LengthInvariant ==
    /\ (pc \in {"encoded", "featured", "decoded"} /\ AllOccur(text, sents))
            => (enc.err = "none" /\ Len(enc.labels) = Len(text))
    /\ pc = "featured" => Len(feats) = Len(text)

C6_Witness ==
    /\ pc = "featured"
    /\ Len(text) = MaxTextLen /\ Len(sents) = 2
    /\ Len(sents[1]) = 2 /\ Len(sents[2]) = 2
    /\ FirstStart(text, sents[2]) = FirstStart(text, sents[1]) + 1
    /\ Len(feats) = MaxTextLen /\ Len(enc.labels) = MaxTextLen

(***************************************************************************)
(* C7.  Decode segmentation: for labels of the text's length, exactly one  *)
(* sentence per maximal run of IN_SENTENCE labels, left to right, each the *)
(* text of its run; no empty sentence; nothing when all is BOUNDARY.       *)
(***************************************************************************)
C7_OneSentencePerRun ==
    (pc = "decoded" /\ Len(labels) = Len(text))
        => /\ dec.err = "none"
           /\ Len(dec.sentences) = Cardinality(RunStarts(labels))
           /\ \A s \in RunStarts(labels) :
                 dec.sentences[RunRank(labels, s)] = SubSeq(text, s, RunEnd(labels, s))
           /\ \A k \in 1..Len(dec.sentences) : dec.sentences[k] # <<>>
           /\ (\A i \in 1..Len(labels) : labels[i] = "1") => dec.sentences = <<>>

C7_Witness ==
    /\ pc = "decoded"
    /\ Len(text) = MaxTextLen /\ Len(labels) = Len(text)
    /\ labels[1] = "0" /\ labels[2] = "1" /\ labels[Len(labels)] = "0"
    /\ Len(dec.sentences) = 2
    /\ dec.sentences[2] = <<text[Len(text)]>>

(***************************************************************************)
(* C8.  Context truncation: the vector of character i holds the three      *)
(* un-prefixed tokens of character i and, for each offset d of -2, -1, +1, *)
(* +2, the three tokens of character i+d exactly when 0 <= i+d < len(text) *)
(* and no token of that offset otherwise: 3 + 3 * (offsets in range)       *)
(* tokens in all.                                                          *)
(***************************************************************************)
C8_ContextTruncation ==
    pc = "featured" =>
        \A i \in 0..(Len(text) - 1) :
            LET v == feats[i + 1]
            IN  /\ SubSeq(v, 1, 3) = group("", text[i + 1])
                /\ \A d \in Offsets :
                      Range(v) \cap TokensOf(d) =
                         IF InRange(text, i + d)
                         THEN Range(group(Marker(d), text[i + d + 1]))
                         ELSE {}
                /\ Len(v) = 3 + 3 * Cardinality({d \in Offsets : InRange(text, i + d)})

C8_Witness ==
    /\ pc = "featured"
    /\ Len(text) = MaxFeatLen
    /\ Len(feats[1]) = 9 /\ Len(feats[2]) = 12 /\ Len(feats[3]) = 15
    /\ Len(feats[Len(text)]) = 9
    /\ text[1] = "A" /\ text[3] = "0"

(***************************************************************************)
(* C9.  Partial-failure tolerance: a document that cannot be read or       *)
(* encoded is skipped, and when the pass over the corpus ends X and y hold *)
(* the features and labels of every other document, in input order.  The   *)
(* code has no handler: the first failure ends the pass.                   *)
(***************************************************************************)
C9_FailedDocumentSkipped ==
    pc # "loop" =>
        LET kept == SelectSeq(corpus, Processable)
        IN  /\ X = [k \in 1..Len(kept) |-> sent2features(kept[k].text)]
            /\ y = [k \in 1..Len(kept) |-> text2labels(kept[k].text, kept[k].sents).labels]

(***************************************************************************)
(* C10.  Encode is insensitive to the order and multiplicity of the        *)
(* sentence list: two lists with the same set of strings, all occurring in *)
(* the text, get the same label sequence.                                  *)
(***************************************************************************)
C10_OrderInsensitive ==
    (pc = "reencoded" /\ AllOccur(text, sents))
        => /\ enc.err = "none" /\ enc2.err = "none"
           /\ enc2.labels = enc.labels

C10_Witness ==
    /\ pc = "reencoded"
    /\ Len(sents) = 2 /\ sents[1] # sents[2]
    /\ sents[1] # <<>> /\ sents[2] # <<>>
    /\ AllOccur(text, sents)
    /\ sents2 = <<sents[2], sents[1]>>
    /\ \E i \in 1..Len(text) : InFirstSpan(text, sents[1], i) /\ InFirstSpan(text, sents[2], i)
    /\ \E i \in 1..Len(text) : enc.labels[i] = "1"

=============================================================================
